---- MODULE Spec2Model ----
(***************************************************************************)
(* State-machine model of src/server.ts, the bingo room coordinator:       *)
(* the player and room tables, the per-room draw timers, and one action    *)
(* per event-loop step (an inbound message, a timer fire, a socket event). *)
(* Every handler runs to completion before the next event is taken, as on  *)
(* the single-threaded event loop the server runs on.                      *)
(*                                                                         *)
(* Conventions.  A value a client may leave out of a message, and a number *)
(* that may be NaN, is a sequence of length at most one: << >> is          *)
(* undefined / NaN and <<v>> is the value v.  Player, room and timer ids   *)
(* are drawn from counters: the source draws them from the clock and a     *)
(* random suffix, and only their freshness is modelled.                    *)
(***************************************************************************)
EXTENDS Integers, Sequences, FiniteSets

(***************************************************************************)
(* Bounds of the model.                                                    *)
(***************************************************************************)
\* Connections accepted over the run.
MaxConns == 2
\* Successful registrations over a run of the matchmaking events.
MaxPlayers == 4
\* Successful registrations over a run of the scheduler events.
MaxCallers == 2
\* Room capacity: 90 in getOrCreateRoom (src/server.ts:193), scaled down.
RoomCapacity == 2
\* The range of the '30ball' variant: 30 in boardTypes (src/server.ts:38),
\* scaled down so that a room can call every number of its range.
SmallRange == 2
\* Successful start_calling commands over the run.
MaxStarts == 2
\* Successful registrations over a run of the ledger events.
MaxAccounts == 2
\* Successful start_calling commands over a run of the ledger events.
MaxDraws == 1
\* Payouts after which no further win is claimed for a player, over a run of
\* the wins events and over a run of the ledger events.
MaxClaims == 2
MaxLedgerClaims == 1

(***************************************************************************)
(* Program constants.                                                      *)
(***************************************************************************)
\* validMembers in calculatePotentialWin.
validMembers == 90
\* The smallest amount handleWithdraw accepts.
MinWithdraw == 25

(***************************************************************************)
(* Optional values and NaN.                                                *)
(***************************************************************************)
Undefined == << >>
Some(v) == <<v>>
IsDefined(x) == Len(x) = 1
Val(x) == x[1]

\* JavaScript truthiness of an optional string or number: undefined, "" and 0
\* are falsy (the model's strings are never empty).
Truthy(x) == IsDefined(x) /\ Val(x) # 0
TruthyString(x) == IsDefined(x)

\* a < b and a > b on numbers that may be undefined or NaN: any comparison
\* with NaN is false.
JsLess(a, b) == IsDefined(a) /\ IsDefined(b) /\ Val(a) < Val(b)
JsGreater(a, b) == IsDefined(a) /\ IsDefined(b) /\ Val(a) > Val(b)
\* a - b and a + b: NaN when either side is.
JsMinus(a, b) == IF IsDefined(a) /\ IsDefined(b) THEN Some(Val(a) - Val(b)) ELSE Undefined
JsPlus(a, b) == IF IsDefined(a) /\ IsDefined(b) THEN Some(Val(a) + Val(b)) ELSE Undefined
\* parseInt(x) || 0
ParseIntOrZero(x) == IF Truthy(x) THEN x ELSE Some(0)

Abs(n) == IF n < 0 THEN 0 - n ELSE n

(***************************************************************************)
(* Static configuration.                                                   *)
(***************************************************************************)
\* boardTypes, with every range scaled down in the order of the source's.
boardTypes ==
  << [id |-> "75ball",   range |-> SmallRange + 2],
     [id |-> "90ball",   range |-> SmallRange + 3],
     [id |-> "30ball",   range |-> SmallRange],
     [id |-> "50ball",   range |-> SmallRange + 1],
     [id |-> "pattern",  range |-> SmallRange + 2],
     [id |-> "coverall", range |-> SmallRange + 3] >>

\* boardTypes.find(t => t.id === gameType): the matching entries, in order.
FindBoardType(gameType) == SelectSeq(boardTypes, LAMBDA t : t.id = gameType)

\* Math.floor(0.8 * validMembers * stake * 0.97).  0.8 * 90 is exactly 72 in
\* double arithmetic and the product agrees with floor(72 * 97 * stake / 100)
\* for every stake of the model; \div rounds down, as Math.floor does.
calculatePotentialWin(stake) == (8 * validMembers * stake * 97) \div 1000

(***************************************************************************)
(* State.                                                                  *)
(***************************************************************************)
VARIABLES
  conns,        \* readyState of every WebSocket accepted so far, by connection
  players,      \* the players Map, as its entries in insertion order
  rooms,        \* the rooms Map, as its entries in insertion order
  intervals,    \* armed setInterval timers: [id, room]
  timeouts,     \* pending setTimeout timers: [id, room]
  nextPlayerId, \* source of fresh player ids
  nextRoomId,   \* source of fresh room ids
  nextTimerId,  \* source of fresh timer ids
  hung,         \* the event loop is stuck inside a handler that never returns
  inbound,      \* the event the last step handled
  sent          \* the ws.send calls of the last step, in order

vars == << conns, players, rooms, intervals, timeouts, nextPlayerId,
           nextRoomId, nextTimerId, hung, inbound, sent >>

\* An id no player and no room ever has.
NoId == 0

Range(s) == { s[i] : i \in DOMAIN s }

PlayerIds(ps) == { p.id : p \in Range(ps) }
RoomIds(rs) == { r.id : r \in Range(rs) }

\* players.get(id) / rooms.get(id), for an id that is present.
GetPlayer(ps, id) == CHOOSE p \in Range(ps) : p.id = id
GetRoom(rs, id) == CHOOSE r \in Range(rs) : r.id = id

\* Map.set on an existing key / Map.delete: the other entries keep their order.
PutPlayer(ps, q) == [ i \in DOMAIN ps |-> IF ps[i].id = q.id THEN q ELSE ps[i] ]
PutRoom(rs, q) == [ i \in DOMAIN rs |-> IF rs[i].id = q.id THEN q ELSE rs[i] ]
DeletePlayerNot(ps, id) == ps
DeletePlayer(ps, id) == SelectSeq(ps, LAMBDA p : p.id # id)
DeleteRoomNot(rs, id) == rs
DeleteRoom(rs, id) == SelectSeq(rs, LAMBDA r : r.id # id)

\* ws.readyState === WebSocket.OPEN
IsOpen(ws) == ws \in DOMAIN conns /\ conns[ws] = "open"

\* One ws.send call: the socket, the message type, the room whose fan-out made
\* the call (NoId for a direct send), the integer fields of the message the
\* model keeps, and the balance it carries (Undefined when it carries none).
Msg(ws, type, room, data, balance) ==
  [to |-> ws, type |-> type, room |-> room, data |-> data, balance |-> balance]

\* The event handled by a step.
Event(type, ws, playerId, roomId, data) ==
  [type |-> type, ws |-> ws, playerId |-> playerId, roomId |-> roomId, data |-> data]

NoData == << >>

Init ==
  /\ conns = << >>
  /\ players = << >>
  /\ rooms = << >>
  /\ intervals = {}
  /\ timeouts = {}
  /\ nextPlayerId = 1
  /\ nextRoomId = 1
  /\ nextTimerId = 1
  /\ hung = FALSE
  /\ inbound = Event("init", NoId, NoId, NoId, NoData)
  /\ sent = << >>

(***************************************************************************)
(* Broadcast fan-out and error replies.                                    *)
(***************************************************************************)
\* broadcastToRoom(roomId, message, excludePlayerId) over the tables ps, rs:
\* one send per member of the room, in membership order, that is not the
\* excluded player and whose socket is open; nothing for a missing room.
broadcastToRoom(ps, rs, roomId, type, data, excludePlayerId) ==
  IF roomId \notin RoomIds(rs) THEN << >>
  ELSE LET members == GetRoom(rs, roomId).players
           to == SelectSeq(members, LAMBDA id :
                     id # excludePlayerId /\ IsOpen(GetPlayer(ps, id).ws))
       IN  [ i \in DOMAIN to |->
               Msg(GetPlayer(ps, to[i]).ws, type, roomId, data, Undefined) ]

\* The texts of the error replies.
ErrInvalidFormat == 1
ErrUnknownType == 2
ErrMissingRegistration == 3
ErrInvalidWithdrawal == 4
ErrInsufficientBalance == 5

\* sendError(ws, message)
sendError(ws, message) ==
  IF IsOpen(ws) THEN << Msg(ws, "error", NoId, <<message>>, Undefined) >> ELSE << >>

(***************************************************************************)
(* Connections.                                                            *)
(***************************************************************************)
\* handleWs: a new socket is accepted and its handlers are installed.
Connect ==
  /\ ~hung
  /\ conns' = Append(conns, "open")
  /\ inbound' = Event("connection", Len(conns) + 1, NoId, NoId, NoData)
  /\ sent' = << >>
  /\ UNCHANGED << players, rooms, intervals, timeouts, nextPlayerId,
                  nextRoomId, nextTimerId, hung >>

\* A frame that JSON.parse rejects.
InvalidMessage(ws) ==
  /\ ~hung
  /\ IsOpen(ws)
  /\ inbound' = Event("invalid", ws, NoId, NoId, NoData)
  /\ sent' = sendError(ws, ErrInvalidFormat)
  /\ UNCHANGED << conns, players, rooms, intervals, timeouts, nextPlayerId,
                  nextRoomId, nextTimerId, hung >>

\* handleMessage, default case.
UnknownType(ws) ==
  /\ ~hung
  /\ IsOpen(ws)
  /\ inbound' = Event("unknown", ws, NoId, NoId, NoData)
  /\ sent' = sendError(ws, ErrUnknownType)
  /\ UNCHANGED << conns, players, rooms, intervals, timeouts, nextPlayerId,
                  nextRoomId, nextTimerId, hung >>

(***************************************************************************)
(* Registration and matchmaking.                                           *)
(***************************************************************************)
\* The registration payloads clients send: complete ones, and one with each
\* required field left out or zero.
RegistrationInputs ==
  { [name |-> Some("A"), phone |-> Some("p"), stake |-> Some(pr[1]),
     gameType |-> Some(g), payment |-> pr[2]] :
       pr \in { <<1, Some(50)>>, <<-1, Undefined>>, <<1, Some(-10)>> },
       g \in { "30ball", "other" } }
  \cup
  { [name |-> Undefined, phone |-> Some("p"), stake |-> Some(1),
     gameType |-> Some("30ball"), payment |-> Some(50)],
    [name |-> Some("A"), phone |-> Undefined, stake |-> Some(1),
     gameType |-> Some("30ball"), payment |-> Some(50)],
    [name |-> Some("A"), phone |-> Some("p"), stake |-> Undefined,
     gameType |-> Some("30ball"), payment |-> Some(50)],
    [name |-> Some("A"), phone |-> Some("p"), stake |-> Some(0),
     gameType |-> Some("30ball"), payment |-> Some(50)],
    [name |-> Some("A"), phone |-> Some("p"), stake |-> Some(1),
     gameType |-> Undefined, payment |-> Some(50)] }

\* The room the scan of getOrCreateRoom returns: the first entry of the room
\* table with this game type and fewer members than the capacity, or none.
OpenRoomsLast(rs, gameType) ==
  LET open == SelectSeq(rs, LAMBDA r : r.gameType = gameType
                                       /\ Len(r.players) < RoomCapacity)
  IN  IF open = << >> THEN << >> ELSE << open[Len(open)] >>
OpenRoomsFull(rs, gameType) ==
  SelectSeq(rs, LAMBDA r : r.gameType = gameType /\ Len(r.players) <= RoomCapacity)
OpenRooms(rs, gameType) ==
  SelectSeq(rs, LAMBDA r : r.gameType = gameType /\ Len(r.players) < RoomCapacity)

NewRoom(roomId, gameType) ==
  [id |-> roomId, gameType |-> gameType, players |-> << >>,
   calledNumbers |-> << >>, currentNumber |-> Undefined,
   isCalling |-> FALSE, callInterval |-> Undefined]

\* getOrCreateRoom(gameType): the room table afterwards and the id returned.
getOrCreateRoom(rs, gameType) ==
  LET open == OpenRooms(rs, gameType)
  IN  IF open # << >>
      THEN [rooms |-> rs, roomId |-> open[1].id]
      ELSE [rooms |-> Append(rs, NewRoom(nextRoomId, gameType)),
            roomId |-> nextRoomId]

\* The precondition of handleRegisterPlayer.
RegistrationAccepted(d) ==
  /\ TruthyString(d.name) /\ TruthyString(d.phone)
  /\ Truthy(d.stake) /\ TruthyString(d.gameType)

\* handleRegisterPlayer(ws, data)
RegisterPlayer(ws, d) ==
  /\ ~hung
  /\ IsOpen(ws)
  /\ inbound' = Event("register_player", ws, NoId, NoId, d)
  /\ IF ~RegistrationAccepted(d)
     THEN /\ sent' = sendError(ws, ErrMissingRegistration)
          /\ UNCHANGED << conns, players, rooms, intervals, timeouts,
                          nextPlayerId, nextRoomId, nextTimerId, hung >>
     ELSE /\ LET got == getOrCreateRoom(rooms, Val(d.gameType))
                 roomId == got.roomId
                 player == [id |-> nextPlayerId,
                            stake |-> Val(d.stake),
                            gameType |-> Val(d.gameType),
                            payment |-> ParseIntOrZero(d.payment),
                            balance |-> ParseIntOrZero(d.payment),
                            won |-> 0,
                            ws |-> ws,
                            roomId |-> roomId,
                            markedNumbers |-> {}]
                 ps == Append(players, player)
                 room == GetRoom(got.rooms, roomId)
                 rs == PutRoom(got.rooms,
                         [room EXCEPT !.players = Append(@, player.id)])
             IN  /\ players' = ps
                 /\ rooms' = rs
                 /\ nextRoomId' = IF got.rooms = rooms THEN nextRoomId
                                                       ELSE nextRoomId + 1
                 /\ sent' = << Msg(ws, "player_connected", NoId,
                                   <<player.id, roomId>>, Undefined) >>
                            \o broadcastToRoom(ps, rs, roomId, "player_joined",
                                 GetRoom(rs, roomId).players, player.id)
          /\ nextPlayerId' = nextPlayerId + 1
          /\ UNCHANGED << conns, intervals, timeouts, nextTimerId, hung >>

(***************************************************************************)
(* Marking and win claims.                                                 *)
(***************************************************************************)
\* A message arrives on an open socket.  handleMessage passes the socket on
\* to handleRegisterPlayer and sendError only: the other handlers never see
\* it.
SomeSocketOpen == \E ws \in DOMAIN conns : IsOpen(ws)

\* The ids a message may carry: those of the tables, and one that is in
\* neither.
PlayerIdInputs == PlayerIds(players) \cup {NoId}
RoomIdInputs == RoomIds(rooms) \cup {NoId}

\* The numbers a mark_number message may carry.
NumberInputs == {1}

\* handleMarkNumber(playerId, roomId, number)
MarkNumber(playerId, roomId, number) ==
  /\ ~hung
  /\ SomeSocketOpen
  /\ inbound' = Event("mark_number", NoId, playerId, roomId, <<number>>)
  /\ IF playerId \notin PlayerIds(players)
        \/ GetPlayer(players, playerId).roomId # roomId
     THEN /\ sent' = << >>
          /\ UNCHANGED players
     ELSE LET player == GetPlayer(players, playerId)
              ps == PutPlayer(players,
                      [player EXCEPT !.markedNumbers = @ \cup {number}])
          IN  /\ players' = ps
              /\ sent' = broadcastToRoom(ps, rooms, roomId, "number_marked",
                                         <<playerId, number>>, playerId)
  /\ UNCHANGED << conns, rooms, intervals, timeouts, nextPlayerId,
                  nextRoomId, nextTimerId, hung >>

\* The payout of one win: won and balance are credited, the marked numbers
\* are cleared.
PayWinnerKeepMarks(player) ==
  [player EXCEPT !.won = @ + calculatePotentialWin(player.stake),
                 !.balance = JsPlus(@, Some(calculatePotentialWin(player.stake)))]
PayWinner(player) ==
  [player EXCEPT !.won = @ + calculatePotentialWin(player.stake),
                 !.balance = JsPlus(@, Some(calculatePotentialWin(player.stake))),
                 !.markedNumbers = {}]

\* handleAnnounceWin(playerId, roomId, data)
AnnounceWin(playerId, roomId) ==
  /\ ~hung
  /\ SomeSocketOpen
  /\ inbound' = Event("announce_win", NoId, playerId, roomId, NoData)
  /\ IF playerId \notin PlayerIds(players) \/ roomId \notin RoomIds(rooms)
     THEN /\ sent' = << >>
          /\ UNCHANGED players
     ELSE LET player == GetPlayer(players, playerId)
              winAmount == calculatePotentialWin(player.stake)
              paid == PayWinner(player)
              ps == PutPlayer(players, paid)
          IN  /\ players' = ps
              /\ sent' = broadcastToRoom(ps, rooms, roomId, "win_announced",
                                         <<playerId, winAmount>>, NoId)
                         \o << Msg(player.ws, "balance_updated", NoId,
                                   <<paid.won>>, paid.balance) >>
  /\ UNCHANGED << conns, rooms, intervals, timeouts, nextPlayerId,
                  nextRoomId, nextTimerId, hung >>

(***************************************************************************)
(* The number-calling scheduler.                                           *)
(***************************************************************************)
\* The early return of handleStartCalling: no such room, or a room that is
\* calling already.
StartReturnsEarlyUnknown(roomId) == roomId \notin RoomIds(rooms)
StartReturnsEarly(roomId) ==
  roomId \notin RoomIds(rooms) \/ GetRoom(rooms, roomId).isCalling

\* handleStartCalling(roomId): the interval is armed first, the one-shot
\* first draw second.
StartCalling(roomId) ==
  /\ ~hung
  /\ SomeSocketOpen
  /\ inbound' = Event("start_calling", NoId, NoId, roomId, NoData)
  /\ sent' = << >>
  /\ IF StartReturnsEarly(roomId)
     THEN UNCHANGED << rooms, intervals, timeouts, nextTimerId >>
     ELSE /\ rooms' = PutRoom(rooms,
               [GetRoom(rooms, roomId) EXCEPT !.isCalling = TRUE,
                                              !.callInterval = Some(nextTimerId)])
          /\ intervals' = intervals \cup {[id |-> nextTimerId, room |-> roomId]}
          /\ timeouts' = timeouts \cup {[id |-> nextTimerId + 1, room |-> roomId]}
          /\ nextTimerId' = nextTimerId + 2
  /\ UNCHANGED << conns, players, nextPlayerId, nextRoomId, hung >>

\* clearInterval(handle)
clearIntervalNot(armed, handle) == armed
clearInterval(armed, handle) == { t \in armed : t.id # handle }

\* handleStopCalling(roomId)
StopCalling(roomId) ==
  /\ ~hung
  /\ SomeSocketOpen
  /\ inbound' = Event("stop_calling", NoId, NoId, roomId, NoData)
  /\ sent' = << >>
  /\ IF roomId \notin RoomIds(rooms) \/ ~GetRoom(rooms, roomId).isCalling
     THEN UNCHANGED << rooms, intervals >>
     ELSE LET room == GetRoom(rooms, roomId)
          IN  IF IsDefined(room.callInterval)
              THEN /\ intervals' = clearInterval(intervals, Val(room.callInterval))
                   /\ rooms' = PutRoom(rooms,
                        [room EXCEPT !.isCalling = FALSE,
                                     !.callInterval = Undefined])
              ELSE /\ intervals' = intervals
                   /\ rooms' = PutRoom(rooms, [room EXCEPT !.isCalling = FALSE])
  /\ UNCHANGED << conns, players, timeouts, nextPlayerId, nextRoomId,
                  nextTimerId, hung >>

\* room.calledNumbers.every(num => player.markedNumbers.has(num))
HasMarkedOnlyCalled(room, player) == player.markedNumbers \subseteq Range(room.calledNumbers)
HasMarkedAll(room, player) == Range(room.calledNumbers) \subseteq player.markedNumbers

\* checkForWinners(roomId), from member i of the room on, over the player
\* table ps: the player table afterwards and the sends made, in order.
RECURSIVE checkForWinnersFrom(_, _, _, _)
checkForWinnersFrom(ps, rs, roomId, i) ==
  LET room == GetRoom(rs, roomId)
  IN  IF i > Len(room.players) THEN [players |-> ps, sent |-> << >>]
      ELSE LET player == GetPlayer(ps, room.players[i])
           IN  IF HasMarkedAll(room, player)
               THEN LET winAmount == calculatePotentialWin(player.stake)
                        paid == PayWinner(player)
                        ps2 == PutPlayer(ps, paid)
                        rest == checkForWinnersFrom(ps2, rs, roomId, i + 1)
                    IN  [players |-> rest.players,
                         sent |-> broadcastToRoom(ps, rs, roomId, "win_announced",
                                    <<player.id, winAmount>>, NoId)
                                  \o << Msg(player.ws, "balance_updated", NoId,
                                            <<paid.won>>, paid.balance) >>
                                  \o rest.sent]
               ELSE checkForWinnersFrom(ps, rs, roomId, i + 1)

checkForWinners(ps, rs, roomId) ==
  IF roomId \notin RoomIds(rs) THEN [players |-> ps, sent |-> << >>]
  ELSE checkForWinnersFrom(ps, rs, roomId, 1)

\* The guard of callNextNumber: the room exists, is calling, and its game type
\* is one of boardTypes.
DrawsAlways(roomId) ==
  /\ roomId \in RoomIds(rooms)
  /\ FindBoardType(GetRoom(rooms, roomId).gameType) # << >>
Draws(roomId) ==
  /\ roomId \in RoomIds(rooms)
  /\ GetRoom(rooms, roomId).isCalling
  /\ FindBoardType(GetRoom(rooms, roomId).gameType) # << >>

\* The values the do-while loop of callNextNumber can leave in `number`:
\* Math.random() yields any value of 1 .. range, and the loop repeats until
\* the value is not among the called numbers.
DrawableAny(room) == 1 .. FindBoardType(room.gameType)[1].range
Drawable(room) ==
  (1 .. FindBoardType(room.gameType)[1].range) \ Range(room.calledNumbers)

\* callNextNumber(roomId).  With every number of the range called the loop
\* never ends and the handler never returns.
callNextNumber(roomId) ==
  IF ~Draws(roomId)
  THEN /\ sent' = << >>
       /\ UNCHANGED << players, rooms, hung >>
  ELSE LET room == GetRoom(rooms, roomId)
       IN  IF Drawable(room) = {}
           THEN /\ hung' = TRUE
                /\ sent' = << >>
                /\ UNCHANGED << players, rooms >>
           ELSE \E number \in Drawable(room) :
                  LET drawn == [room EXCEPT
                                  !.calledNumbers = Append(@, number),
                                  !.currentNumber = Some(number)]
                      rs == PutRoom(rooms, drawn)
                      won == checkForWinners(players, rs, roomId)
                  IN  /\ rooms' = rs
                      /\ players' = won.players
                      /\ sent' = broadcastToRoom(players, rs, roomId,
                                    "number_called", <<number>>, NoId)
                                 \o won.sent
                      /\ UNCHANGED hung

\* A tick of the interval armed by handleStartCalling.
IntervalFire(t) ==
  /\ ~hung
  /\ t \in intervals
  /\ inbound' = Event("interval", NoId, NoId, t.room, <<t.id>>)
  /\ callNextNumber(t.room)
  /\ UNCHANGED << conns, intervals, timeouts, nextPlayerId, nextRoomId,
                  nextTimerId >>

\* The one-shot first draw scheduled by handleStartCalling.
TimeoutFire(t) ==
  /\ ~hung
  /\ t \in timeouts
  /\ inbound' = Event("timeout", NoId, NoId, t.room, <<t.id>>)
  /\ timeouts' = timeouts \ {t}
  /\ callNextNumber(t.room)
  /\ UNCHANGED << conns, intervals, nextPlayerId, nextRoomId, nextTimerId >>

(***************************************************************************)
(* Game state queries and withdrawals.                                     *)
(***************************************************************************)
\* handleGetGameState(playerId, roomId)
GetGameState(playerId, roomId) ==
  /\ ~hung
  /\ SomeSocketOpen
  /\ inbound' = Event("get_game_state", NoId, playerId, roomId, NoData)
  /\ sent' = IF playerId \notin PlayerIds(players) \/ roomId \notin RoomIds(rooms)
             THEN << >>
             ELSE << Msg(GetPlayer(players, playerId).ws, "game_state", NoId,
                         GetRoom(rooms, roomId).calledNumbers, Undefined) >>
  /\ UNCHANGED << conns, players, rooms, intervals, timeouts, nextPlayerId,
                  nextRoomId, nextTimerId, hung >>

\* The withdrawal payloads clients send.
WithdrawInputs ==
  { [account |-> Some("acct"), amount |-> a] :
      a \in { Undefined, Some(MinWithdraw - 1), Some(30) } }
  \cup { [account |-> Undefined, amount |-> Some(30)] }

\* The two checks of handleWithdraw, in order: the error each sends, or
\* none.
WithdrawError(player, d) ==
  IF ~TruthyString(d.account) \/ JsLess(d.amount, Some(MinWithdraw))
  THEN Some(ErrInvalidWithdrawal)
  ELSE IF JsGreater(d.amount, player.balance)
       THEN Some(ErrInsufficientBalance)
       ELSE Undefined

\* handleWithdraw(playerId, roomId, data); roomId is never read.
Withdraw(ws, playerId, roomId, d) ==
  /\ ~hung
  /\ IsOpen(ws)
  /\ inbound' = Event("withdraw", ws, playerId, roomId, d)
  /\ IF playerId \notin PlayerIds(players)
     THEN /\ sent' = << >>
          /\ UNCHANGED players
     ELSE LET player == GetPlayer(players, playerId)
              error == WithdrawError(player, d)
              debited == [player EXCEPT !.balance = JsMinus(@, d.amount)]
          IN  IF IsDefined(error)
              THEN /\ sent' = sendError(player.ws, Val(error))
                   /\ UNCHANGED players
              ELSE /\ players' = PutPlayer(players, debited)
                   /\ sent' = << Msg(player.ws, "withdrawal_processed", NoId,
                                     << >>, debited.balance) >>
  /\ UNCHANGED << conns, rooms, intervals, timeouts, nextPlayerId,
                  nextRoomId, nextTimerId, hung >>

(***************************************************************************)
(* Disconnects.                                                            *)
(***************************************************************************)
\* The scan of handleDisconnect: the players of this socket, in table order.
PlayersOf(ps, ws) == SelectSeq(ps, LAMBDA p : p.ws = ws)

\* handleDisconnect(ws): the first player of the socket leaves its room and
\* the player table; a room left empty is deleted and its interval cleared.
\* The socket is no longer open when its close or error handler runs, so the
\* fan-out skips a member that is registered on this same socket.
handleDisconnect(ws) ==
  IF PlayersOf(players, ws) = << >>
  THEN /\ sent' = << >>
       /\ UNCHANGED << players, rooms, intervals >>
  ELSE LET player == PlayersOf(players, ws)[1]
           roomId == player.roomId
       IN  /\ players' = DeletePlayer(players, player.id)
           /\ IF roomId \notin RoomIds(rooms)
              THEN /\ sent' = << >>
                   /\ UNCHANGED << rooms, intervals >>
              ELSE LET room == GetRoom(rooms, roomId)
                       left == [room EXCEPT !.players =
                                  SelectSeq(@, LAMBDA id : id # player.id)]
                       rs == PutRoom(rooms, left)
                   IN  /\ sent' = SelectSeq(
                                     broadcastToRoom(players, rs, roomId,
                                       "player_left", left.players, NoId),
                                     LAMBDA m : m.to # ws)
                       /\ IF left.players = << >>
                          THEN /\ rooms' = DeleteRoom(rs, roomId)
                               /\ intervals' =
                                    IF IsDefined(room.callInterval)
                                    THEN clearInterval(intervals,
                                                       Val(room.callInterval))
                                    ELSE intervals
                          ELSE /\ rooms' = rs
                               /\ UNCHANGED intervals

\* ws.on("close")
OnClose(ws) ==
  /\ ~hung
  /\ ws \in DOMAIN conns
  /\ conns[ws] \in {"open", "errored"}
  /\ conns' = [conns EXCEPT ![ws] = "closed"]
  /\ inbound' = Event("close", ws, NoId, NoId, NoData)
  /\ handleDisconnect(ws)
  /\ UNCHANGED << timeouts, nextPlayerId, nextRoomId, nextTimerId, hung >>

\* ws.on("error"): the socket is no longer open, and its close event follows.
OnError(ws) ==
  /\ ~hung
  /\ IsOpen(ws)
  /\ conns' = [conns EXCEPT ![ws] = "errored"]
  /\ inbound' = Event("error", ws, NoId, NoId, NoData)
  /\ handleDisconnect(ws)
  /\ UNCHANGED << timeouts, nextPlayerId, nextRoomId, nextTimerId, hung >>

(***************************************************************************)
(* The event loop.                                                         *)
(***************************************************************************)
Sockets == DOMAIN conns

\* Every event the loop can take, with the inputs of the model.
Next ==
  \/ Connect
  \/ \E ws \in Sockets : InvalidMessage(ws)
  \/ \E ws \in Sockets : UnknownType(ws)
  \/ \E ws \in Sockets, d \in RegistrationInputs : RegisterPlayer(ws, d)
  \/ \E playerId \in PlayerIdInputs, roomId \in RoomIdInputs,
        number \in NumberInputs : MarkNumber(playerId, roomId, number)
  \/ \E playerId \in PlayerIdInputs, roomId \in RoomIdInputs :
        AnnounceWin(playerId, roomId)
  \/ \E roomId \in RoomIdInputs : StartCalling(roomId)
  \/ \E roomId \in RoomIdInputs : StopCalling(roomId)
  \/ \E playerId \in PlayerIdInputs, roomId \in RoomIdInputs :
        GetGameState(playerId, roomId)
  \/ \E ws \in Sockets, playerId \in PlayerIdInputs, roomId \in RoomIdInputs,
        d \in WithdrawInputs : Withdraw(ws, playerId, roomId, d)
  \/ \E t \in intervals : IntervalFire(t)
  \/ \E t \in timeouts : TimeoutFire(t)
  \/ \E ws \in Sockets : OnClose(ws)
  \/ \E ws \in Sockets : OnError(ws)

Spec == Init /\ [][Next]_vars

(***************************************************************************)
(* Matchmaking: connections, registrations for two game types and         *)
(* disconnects, with enough registrations to fill a room and open the     *)
(* next.                                                                   *)
(***************************************************************************)
MatchRegistrationInputs ==
  { d \in RegistrationInputs :
      RegistrationAccepted(d) /\ d.stake = Some(1) /\ d.payment = Some(50) }

NextMatch ==
  \/ Len(conns) < MaxConns /\ Connect
  \/ \E ws \in Sockets, d \in MatchRegistrationInputs :
        nextPlayerId <= MaxPlayers /\ RegisterPlayer(ws, d)
  \/ \E ws \in Sockets : OnClose(ws)
  \/ \E ws \in Sockets : OnError(ws)

SpecMatch == Init /\ [][NextMatch]_vars

(***************************************************************************)
(* Scheduler: the events that read or write the draw state and the timers *)
(* of a room, and the registrations and disconnects that create and       *)
(* delete rooms.                                                           *)
(***************************************************************************)
CallsRegistrationInputs ==
  { d \in MatchRegistrationInputs : d.gameType = Some("30ball") }

NextCalls ==
  \/ Len(conns) < MaxConns /\ Connect
  \/ \E ws \in Sockets, d \in CallsRegistrationInputs :
        nextPlayerId <= MaxCallers /\ RegisterPlayer(ws, d)
  \/ \E roomId \in RoomIdInputs :
        nextTimerId < 2 * MaxStarts /\ StartCalling(roomId)
  \/ \E roomId \in RoomIdInputs : StopCalling(roomId)
  \/ \E t \in intervals : IntervalFire(t)
  \/ \E t \in timeouts : TimeoutFire(t)
  \/ \E ws \in Sockets : OnClose(ws)

SpecCalls == Init /\ [][NextCalls]_vars

(***************************************************************************)
(* Ledger: registrations with every payload of the model, withdrawals,    *)
(* win claims, malformed and unknown messages, and disconnects.           *)
(***************************************************************************)
\* A client claims a win for a player that has been paid fewer than n.
ClaimAllowed(playerId, n) ==
  playerId \in PlayerIds(players) =>
    LET player == GetPlayer(players, playerId)
    IN  Abs(player.won) < n * Abs(calculatePotentialWin(player.stake))

\* The room id a client of the ledger events sends with a withdrawal: that of
\* the player it names.
OwnRoom(playerId) ==
  IF playerId \in PlayerIds(players) THEN GetPlayer(players, playerId).roomId
                                     ELSE NoId

LedgerRegistrationInputs ==
  { d \in RegistrationInputs : d.gameType # Some("other") }

NextLedger ==
  \/ Len(conns) < MaxConns /\ Connect
  \/ \E ws \in Sockets : InvalidMessage(ws)
  \/ \E ws \in Sockets : UnknownType(ws)
  \/ \E ws \in Sockets, d \in LedgerRegistrationInputs :
        nextPlayerId <= MaxAccounts /\ RegisterPlayer(ws, d)
  \/ \E playerId \in PlayerIdInputs, roomId \in RoomIdInputs :
        ClaimAllowed(playerId, MaxLedgerClaims) /\ AnnounceWin(playerId, roomId)
  \/ \E ws \in Sockets, playerId \in PlayerIdInputs, d \in WithdrawInputs :
        Withdraw(ws, playerId, OwnRoom(playerId), d)
  \/ \E ws \in Sockets : OnClose(ws)

SpecLedger == Init /\ [][NextLedger]_vars

(***************************************************************************)
(* Wins: marking, win claims and draws in one room of two players.        *)
(***************************************************************************)
NextWins ==
  \/ Len(conns) < MaxConns /\ Connect
  \/ \E ws \in Sockets, d \in CallsRegistrationInputs :
        nextPlayerId <= MaxAccounts /\ RegisterPlayer(ws, d)
  \/ \E playerId \in PlayerIdInputs, roomId \in RoomIdInputs,
        number \in NumberInputs : MarkNumber(playerId, roomId, number)
  \/ \E playerId \in PlayerIdInputs, roomId \in RoomIdInputs :
        ClaimAllowed(playerId, MaxClaims) /\ AnnounceWin(playerId, roomId)
  \/ \E roomId \in RoomIdInputs :
        nextTimerId < 2 * MaxDraws /\ StartCalling(roomId)
  \/ \E t \in intervals : IntervalFire(t)
  \/ \E t \in timeouts : TimeoutFire(t)
  \/ \E ws \in Sockets : OnClose(ws)

SpecWins == Init /\ [][NextWins]_vars

(***************************************************************************)
(* Lookups: every message that names a player or a room, with ids that    *)
(* are in the tables and ids that are not.  The draws of a started room   *)
(* are left to the scheduler events.                                       *)
(***************************************************************************)
LookupWithdrawInputs == { d \in WithdrawInputs : d.amount = Some(30) }

NextLookup ==
  \/ Len(conns) < MaxConns /\ Connect
  \/ \E ws \in Sockets, d \in CallsRegistrationInputs :
        nextPlayerId <= MaxAccounts /\ RegisterPlayer(ws, d)
  \/ \E playerId \in PlayerIdInputs, roomId \in RoomIdInputs,
        number \in NumberInputs : MarkNumber(playerId, roomId, number)
  \/ \E playerId \in PlayerIdInputs, roomId \in RoomIdInputs :
        ClaimAllowed(playerId, MaxLedgerClaims) /\ AnnounceWin(playerId, roomId)
  \/ \E roomId \in RoomIdInputs :
        nextTimerId < 2 * MaxDraws /\ StartCalling(roomId)
  \/ \E roomId \in RoomIdInputs : StopCalling(roomId)
  \/ \E playerId \in PlayerIdInputs, roomId \in RoomIdInputs :
        GetGameState(playerId, roomId)
  \/ \E ws \in Sockets, playerId \in PlayerIdInputs, roomId \in RoomIdInputs,
        d \in LookupWithdrawInputs : Withdraw(ws, playerId, roomId, d)
  \/ \E ws \in Sockets : OnClose(ws)

SpecLookup == Init /\ [][NextLookup]_vars

(***************************************************************************)
(* Isolation: marking and win claims over two rooms of different game     *)
(* types, with every room id a message may carry.                         *)
(***************************************************************************)
NextIsolation ==
  \/ Len(conns) < MaxConns /\ Connect
  \/ \E ws \in Sockets, d \in MatchRegistrationInputs :
        nextPlayerId <= MaxAccounts /\ RegisterPlayer(ws, d)
  \/ \E playerId \in PlayerIdInputs, roomId \in RoomIdInputs,
        number \in NumberInputs : MarkNumber(playerId, roomId, number)
  \/ \E playerId \in PlayerIdInputs, roomId \in RoomIdInputs :
        ClaimAllowed(playerId, MaxLedgerClaims) /\ AnnounceWin(playerId, roomId)
  \/ \E ws \in Sockets : OnClose(ws)

SpecIsolation == Init /\ [][NextIsolation]_vars

(***************************************************************************)
(* Properties.                                                             *)
(***************************************************************************)
\* The step handled a registration that was accepted: a player was created.
Registered == inbound'.type = "register_player" /\ nextPlayerId' = nextPlayerId + 1

\* The sends of the last step that the fan-out of room roomId made, of one type.
RoomSends(out, type, roomId) ==
  { k \in DOMAIN out : out[k].type = type /\ out[k].room = roomId }

\* C1: in every reachable state, no room's calledNumbers holds a value twice,
\* and every value in it lies in 1 .. range of the room's game type.
C1_CalledNumbersDistinctInRange ==
  \A i \in DOMAIN rooms :
    LET called == rooms[i].calledNumbers
        boardType == FindBoardType(rooms[i].gameType)
    IN  /\ \A a, b \in DOMAIN called : a # b => called[a] # called[b]
        /\ called # << >> =>
             /\ boardType # << >>
             /\ \A a \in DOMAIN called : called[a] \in 1 .. boardType[1].range

\* C1's case: a room has drawn more than one number.
C1_Witness ==
  \E i \in DOMAIN rooms :
    /\ Len(rooms[i].calledNumbers) >= 2
    /\ inbound.type \in {"interval", "timeout"}
    /\ inbound.roomId = rooms[i].id

\* C2: a room that is not calling before a step and is not started by it
\* draws nothing in the step: its calledNumbers are unchanged and no
\* number_called is sent to it.  After stop_calling a room is not calling
\* until the next start_calling, so no draw queued at stop time acts.
C2_NoDrawWhileStopped ==
  [][ \A i \in DOMAIN rooms :
        ~rooms[i].isCalling =>
          /\ \A j \in DOMAIN rooms' :
               rooms'[j].id = rooms[i].id =>
                 /\ rooms'[j].calledNumbers = rooms[i].calledNumbers
                 /\ rooms'[j].currentNumber = rooms[i].currentNumber
          /\ RoomSends(sent', "number_called", rooms[i].id) = {} ]_vars

\* C2's case: the one-shot draw of a start_calling fired for a room that a
\* stop_calling had stopped, and nothing was sent.
C2_Witness ==
  /\ inbound.type = "timeout"
  /\ sent = << >>
  /\ \E i \in DOMAIN rooms :
       /\ rooms[i].id = inbound.roomId
       /\ ~rooms[i].isCalling
       /\ rooms[i].callInterval = Undefined
       /\ rooms[i].players # << >>

\* C3: no room ever has more members than the capacity, and a registration
\* for a game type whose rooms are all full joins none of them: it opens a
\* new room of that game type, of which the new player is the only member.
C3_RoomNeverOverCapacity ==
  [][ /\ \A j \in DOMAIN rooms' : Len(rooms'[j].players) <= RoomCapacity
      /\ Registered =>
           LET gameType == Val(inbound'.data.gameType)
               same == { i \in DOMAIN rooms : rooms[i].gameType = gameType }
           IN  (\A i \in same : Len(rooms[i].players) >= RoomCapacity) =>
                 /\ \A i \in DOMAIN rooms : rooms'[i] = rooms[i]
                 /\ Len(rooms') = Len(rooms) + 1
                 /\ rooms'[Len(rooms')].gameType = gameType
                 /\ rooms'[Len(rooms')].players = << nextPlayerId >>
                 /\ rooms'[Len(rooms')].id \notin RoomIds(rooms) ]_vars

\* C3's case: a registration found the room of its game type full and opened
\* a second one.
C3_Witness ==
  /\ inbound.type = "register_player"
  /\ \E i, j \in DOMAIN rooms :
       /\ i < j
       /\ rooms[i].gameType = rooms[j].gameType
       /\ Len(rooms[i].players) = RoomCapacity
       /\ rooms[j].players = << nextPlayerId - 1 >>

\* C4: an accepted registration for a game type joins the earliest-created
\* room of that game type with fewer members than the capacity, and no room
\* is created; when there is no such room, a new room of that game type is
\* created and joined.  No other room changes.
C4_FirstFit ==
  [][ Registered =>
        LET gameType == Val(inbound'.data.gameType)
            open == { i \in DOMAIN rooms :
                        /\ rooms[i].gameType = gameType
                        /\ Len(rooms[i].players) < RoomCapacity }
            player == players'[Len(players')]
        IN  /\ player.id = nextPlayerId
            /\ IF open # {}
               THEN LET first == CHOOSE i \in open : \A k \in open : i <= k
                    IN  /\ player.roomId = rooms[first].id
                        /\ Len(rooms') = Len(rooms)
                        /\ rooms'[first].players =
                             Append(rooms[first].players, player.id)
                        /\ \A i \in DOMAIN rooms : i # first => rooms'[i] = rooms[i]
               ELSE /\ Len(rooms') = Len(rooms) + 1
                    /\ player.roomId = rooms'[Len(rooms')].id
                    /\ player.roomId \notin RoomIds(rooms)
                    /\ rooms'[Len(rooms')].gameType = gameType
                    /\ rooms'[Len(rooms')].players = << player.id >>
                    /\ \A i \in DOMAIN rooms : rooms'[i] = rooms[i] ]_vars

\* C4's case: two rooms of one game type had space, and the registration
\* joined the earlier one.
C4_Witness ==
  /\ inbound.type = "register_player"
  /\ \E i, j \in DOMAIN rooms :
       /\ i < j
       /\ rooms[i].gameType = rooms[j].gameType
       /\ nextPlayerId - 1 \in Range(rooms[i].players)
       /\ Len(rooms[j].players) < RoomCapacity

PlayerOf(ps, id) == CHOOSE q \in Range(ps) : q.id = id

\* C6: a withdrawal for a registered player that names an account succeeds
\* exactly when 25 <= amount <= balance: then the balance falls by the amount
\* and one withdrawal_processed with the new balance goes to the player's
\* socket; otherwise one error goes to that socket and no player changes.
C6_WithdrawExactlyWhenCovered ==
  [][ ( /\ inbound'.type = "withdraw"
        /\ inbound'.playerId \in PlayerIds(players)
        /\ IsDefined(inbound'.data.account) )
      => LET player == PlayerOf(players, inbound'.playerId)
             after == PlayerOf(players', inbound'.playerId)
             amount == inbound'.data.amount
             covered == /\ IsDefined(amount) /\ IsDefined(player.balance)
                        /\ MinWithdraw <= Val(amount)
                        /\ Val(amount) <= Val(player.balance)
         IN  /\ rooms' = rooms
             /\ IF covered
                THEN /\ after = [player EXCEPT !.balance =
                                   Some(Val(player.balance) - Val(amount))]
                     /\ \A i \in DOMAIN players :
                          players[i].id # player.id => players'[i] = players[i]
                     /\ Len(sent') = 1
                     /\ sent'[1].type = "withdrawal_processed"
                     /\ sent'[1].to = player.ws
                     /\ sent'[1].balance = after.balance
                ELSE /\ players' = players
                     /\ IsOpen(player.ws) =>
                          /\ Len(sent') = 1
                          /\ sent'[1].type = "error"
                          /\ sent'[1].to = player.ws ]_vars

\* C7: in every reachable state the balance of every registered player that
\* is a number is at least 0.
C7_BalanceNonNegative ==
  \A i \in DOMAIN players :
    IsDefined(players[i].balance) => Val(players[i].balance) >= 0

\* C8: a register_player message without a name, a phone, a stake or a game
\* type, or with a stake that is not positive, is answered with one error on
\* its own socket and changes nothing: no player, no room, no broadcast.
C8_InvalidRegistrationRejected ==
  [][ ( /\ inbound'.type = "register_player"
        /\ LET d == inbound'.data
           IN  \/ ~IsDefined(d.name) \/ ~IsDefined(d.phone)
               \/ ~IsDefined(d.gameType) \/ ~IsDefined(d.stake)
               \/ Val(d.stake) <= 0 )
      => /\ players' = players
         /\ rooms' = rooms
         /\ nextPlayerId' = nextPlayerId
         /\ nextRoomId' = nextRoomId
         /\ Len(sent') = 1
         /\ sent'[1].type = "error"
         /\ sent'[1].to = inbound'.ws
         /\ sent'[1].room = NoId ]_vars

\* C9: every error a step sends goes to the socket the step's inbound
\* message came from, as a direct send and not through a room's fan-out.
C9_ErrorsOnlyToOriginator ==
  [][ \A k \in DOMAIN sent' :
        sent'[k].type = "error" =>
          /\ sent'[k].to = inbound'.ws
          /\ sent'[k].room = NoId ]_vars

\* C10: an announce_win for a registered player and an existing room adds
\* floor(0.8 * 90 * stake * 0.97) to that player's won and balance and empties
\* that player's marked numbers; it changes no other player and no room or
\* timer; it sends one win_announced to every member of the named room whose
\* socket is open and then one balance_updated, to the winner's socket alone.
\* Every such claim is paid, whatever was paid before.
C10_AnnounceWinPays ==
  [][ ( /\ inbound'.type = "announce_win"
        /\ inbound'.playerId \in PlayerIds(players)
        /\ inbound'.roomId \in RoomIds(rooms) )
      => LET player == PlayerOf(players, inbound'.playerId)
             after == PlayerOf(players', inbound'.playerId)
             room == CHOOSE r \in Range(rooms) : r.id = inbound'.roomId
             win == (6984 * player.stake) \div 100
             listeners == { m \in DOMAIN room.players :
                              IsOpen(PlayerOf(players, room.players[m]).ws) }
             announced == RoomSends(sent', "win_announced", room.id)
         IN  /\ after.won = player.won + win
             /\ IsDefined(player.balance)
             /\ after.balance = Some(Val(player.balance) + win)
             /\ after.markedNumbers = {}
             /\ after = [player EXCEPT !.won = after.won,
                                       !.balance = after.balance,
                                       !.markedNumbers = {}]
             /\ Len(players') = Len(players)
             /\ \A i \in DOMAIN players :
                  players[i].id # player.id => players'[i] = players[i]
             /\ rooms' = rooms
             /\ intervals' = intervals
             /\ timeouts' = timeouts
             /\ Len(sent') = Cardinality(listeners) + 1
             /\ announced = 1 .. Cardinality(listeners)
             /\ { sent'[k].to : k \in announced } =
                  { PlayerOf(players, room.players[m]).ws : m \in listeners }
             /\ \A k \in announced : sent'[k].data = << player.id, win >>
             /\ sent'[Len(sent')].type = "balance_updated"
             /\ sent'[Len(sent')].to = player.ws
             /\ sent'[Len(sent')].room = NoId
             /\ sent'[Len(sent')].balance = after.balance ]_vars

\* C10's case: a player who had marked a number was paid a second claim,
\* announced to both members of the room.
C10_Witness ==
  /\ inbound.type = "announce_win"
  /\ Len(sent) = 3
  /\ \E i \in DOMAIN players :
       /\ players[i].id = inbound.playerId
       /\ players[i].roomId = inbound.roomId
       /\ players[i].won = 2 * ((6984 * players[i].stake) \div 100)
       /\ players[i].won > 0
       /\ players[i].markedNumbers = {}

\* C11: a timer fire that draws a number for a room pays exactly the members
\* of the room whose marked numbers, before the draw, hold every called number
\* of the room after it: each of them once, floor(0.8 * 90 * stake * 0.97) on
\* won and on balance, with the marked numbers cleared.  Every other player
\* is as before the draw; a member with no marked number is never paid.
C11_DrawPaysExactlyFullMarkers ==
  [][ ( /\ inbound'.type \in {"interval", "timeout"}
        /\ inbound'.roomId \in RoomIds(rooms)
        /\ inbound'.roomId \in RoomIds(rooms')
        /\ LET before == CHOOSE r \in Range(rooms) : r.id = inbound'.roomId
               after == CHOOSE r \in Range(rooms') : r.id = inbound'.roomId
           IN  Len(after.calledNumbers) = Len(before.calledNumbers) + 1 )
      => LET room == CHOOSE r \in Range(rooms') : r.id = inbound'.roomId
             called == { room.calledNumbers[k] : k \in DOMAIN room.calledNumbers }
         IN  /\ Len(players') = Len(players)
             /\ \A i \in DOMAIN players :
                  LET p == players[i]
                      win == (6984 * p.stake) \div 100
                      member == \E m \in DOMAIN room.players : room.players[m] = p.id
                  IN  IF member /\ called \subseteq p.markedNumbers
                      THEN /\ IsDefined(p.balance)
                           /\ players'[i] =
                                [p EXCEPT !.won = p.won + win,
                                          !.balance = Some(Val(p.balance) + win),
                                          !.markedNumbers = {}]
                      ELSE /\ players'[i] = p
                           /\ p.markedNumbers = {} => players'[i].won = p.won ]_vars

\* C11's case: a draw in a room of two members paid the one that had marked
\* the number drawn and left the other, who had marked nothing, unpaid.
C11_Witness ==
  /\ inbound.type \in {"interval", "timeout"}
  /\ \E k \in DOMAIN sent : sent[k].type = "balance_updated"
  /\ \E i, j \in DOMAIN players :
       /\ players[i].roomId = inbound.roomId
       /\ players[j].roomId = inbound.roomId
       /\ players[i].won > 0
       /\ players[j].won = 0
       /\ players[j].markedNumbers = {}

\* C12: once the close of a socket has been handled, no player registered on
\* that socket is left in the player table, and no room has such a player
\* among its members.
C12_NoPlayerOfClosedSocket ==
  /\ \A i \in DOMAIN players : conns[players[i].ws] # "closed"
  /\ \A i \in DOMAIN rooms :
       \A m \in DOMAIN rooms[i].players :
         \A j \in DOMAIN players :
           players[j].id = rooms[i].players[m] => conns[players[j].ws] # "closed"

\* C13: a mark_number, announce_win, get_game_state or withdraw message whose
\* player id is not in the player table or whose room id is not in the room
\* table, and a start_calling or stop_calling message whose room id is not in
\* the room table, changes no player, no room and no timer, and nothing is
\* sent.
C13_UnknownIdIsNoOp ==
  [][ ( \/ /\ inbound'.type \in {"mark_number", "announce_win",
                                 "get_game_state", "withdraw"}
           /\ \/ inbound'.playerId \notin PlayerIds(players)
              \/ inbound'.roomId \notin RoomIds(rooms)
        \/ /\ inbound'.type \in {"start_calling", "stop_calling"}
           /\ inbound'.roomId \notin RoomIds(rooms) )
      => /\ players' = players
         /\ rooms' = rooms
         /\ intervals' = intervals
         /\ timeouts' = timeouts
         /\ sent' = << >> ]_vars

\* C14: every draw step returns: the event loop is never stuck inside
\* callNextNumber, also when a timer fires for a calling room that has called
\* every number of its range; and no room has called more numbers than its
\* range holds.
C14_DrawTerminates ==
  /\ ~hung
  /\ \A i \in DOMAIN rooms :
       LET boardType == FindBoardType(rooms[i].gameType)
       IN  boardType # << >> =>
             Len(rooms[i].calledNumbers) <= boardType[1].range

\* The interval of the start_calling that scheduled the timer of a timer
\* event: handleStartCalling arms the interval and then the one-shot, whose
\* id is the next one.
PeriodOf(event) ==
  IF event.type = "timeout" THEN event.data[1] - 1 ELSE event.data[1]

\* C15: a timer that fires for a room whose current interval is not the one
\* of the start_calling that scheduled the timer (that calling period was
\* stopped, whether or not the room has been started again since) changes no
\* player and no room and sends nothing.
C15_StaleDrawIsNoOp ==
  [][ ( /\ inbound'.type \in {"interval", "timeout"}
        /\ inbound'.roomId \in RoomIds(rooms)
        /\ LET room == CHOOSE r \in Range(rooms) : r.id = inbound'.roomId
           IN  room.callInterval # Some(PeriodOf(inbound')) )
      => /\ players' = players
         /\ rooms' = rooms
         /\ hung' = hung
         /\ sent' = << >> ]_vars

\* C16: after every step each room that is calling has exactly one armed
\* interval, the one its callInterval names, each room that is not calling
\* has none, and no interval is armed for a room that is not in the table;
\* a start_calling for a room that is calling and a stop_calling for a room
\* that is not calling change no room and no timer.
C16_OneIntervalIffCalling ==
  [][ /\ \A i \in DOMAIN rooms' :
           LET armed == { t \in intervals' : t.room = rooms'[i].id }
           IN  IF rooms'[i].isCalling
               THEN /\ Cardinality(armed) = 1
                    /\ \A t \in armed : rooms'[i].callInterval = Some(t.id)
               ELSE armed = {}
      /\ \A t \in intervals' : \E i \in DOMAIN rooms' : rooms'[i].id = t.room
      /\ \A i \in DOMAIN rooms :
           ( /\ inbound'.roomId = rooms[i].id
             /\ \/ inbound'.type = "start_calling" /\ rooms[i].isCalling
                \/ inbound'.type = "stop_calling" /\ ~rooms[i].isCalling )
           => /\ rooms' = rooms
              /\ intervals' = intervals
              /\ timeouts' = timeouts
              /\ nextTimerId' = nextTimerId ]_vars

\* C16's case: a start_calling arrived for a room that was calling and had
\* drawn a number, and the one interval of the run is still the only timer
\* ever armed for it.
C16_Witness ==
  /\ inbound.type = "start_calling"
  /\ nextTimerId = 3
  /\ \E i \in DOMAIN rooms :
       /\ rooms[i].id = inbound.roomId
       /\ rooms[i].isCalling
       /\ rooms[i].calledNumbers # << >>
       /\ intervals = { [id |-> 1, room |-> rooms[i].id] }

\* C17: every number_marked and win_announced that a mark_number or an
\* announce_win for a registered player produces is sent by the fan-out of
\* the room that player belongs to, to the socket of a member of that room,
\* whatever room id the message carries.
C17_EventsStayInOwnRoom ==
  [][ ( /\ inbound'.type \in {"mark_number", "announce_win"}
        /\ inbound'.playerId \in PlayerIds(players) )
      => LET player == PlayerOf(players, inbound'.playerId)
             own == { r \in Range(rooms) : r.id = player.roomId }
             members == { q \in Range(players) :
                            \E r \in own : \E m \in DOMAIN r.players :
                              r.players[m] = q.id }
         IN  \A k \in DOMAIN sent' :
               sent'[k].type \in {"number_marked", "win_announced"} =>
                 /\ sent'[k].room = player.roomId
                 /\ \E q \in members : q.ws = sent'[k].to ]_vars

\* C18: in every reachable state the roomId of every registered player names
\* a room of the table that has the player among its members, every member
\* of every room is a registered player, and no player is a member twice,
\* of one room or of two.
C18_RegistryAgreesWithRooms ==
  /\ \A i \in DOMAIN players :
       \E j \in DOMAIN rooms :
         /\ rooms[j].id = players[i].roomId
         /\ \E m \in DOMAIN rooms[j].players : rooms[j].players[m] = players[i].id
  /\ \A j \in DOMAIN rooms :
       \A m \in DOMAIN rooms[j].players :
         \E i \in DOMAIN players : players[i].id = rooms[j].players[m]
  /\ \A j, k \in DOMAIN rooms :
       \A m \in DOMAIN rooms[j].players, n \in DOMAIN rooms[k].players :
         rooms[j].players[m] = rooms[k].players[n] => j = k /\ m = n

\* C18's case: a socket closed, one player left a room that others stay in,
\* and rooms and players remain.
C18_Witness ==
  /\ inbound.type = "close"
  /\ Len(rooms) >= 2
  /\ Len(players) >= 2
  /\ Len(players) < nextPlayerId - 1

\* C19: in every reachable state every room of the room table has at least
\* one member.
C19_NoEmptyRoom ==
  \A j \in DOMAIN rooms : rooms[j].players # << >>

\* C19's case: the close of a socket removed the last member of a room, the
\* room is gone, and a room created by an earlier registration remains.
C19_Witness ==
  /\ inbound.type = "close"
  /\ rooms # << >>
  /\ Len(rooms) < nextRoomId - 1

\* C20: after every step each registered player's balance is a number,
\* payment + won less an amount that is 0 or at least the smallest
\* withdrawal, and won is a non-negative multiple of
\* floor(0.8 * 90 * stake * 0.97); a player starts with balance = payment and
\* won = 0; a step changes a player's won only by adding one payout to won
\* and to balance, and changes the balance otherwise only by taking the
\* amount of a withdrawal that was processed.
C20_LedgerConserved ==
  [][ /\ \A j \in DOMAIN players' :
           LET q == players'[j]
               win == (6984 * q.stake) \div 100
           IN  /\ IsDefined(q.balance)
               /\ q.won >= 0
               /\ \E n \in 0 .. MaxClaims : q.won = n * win
               /\ LET withdrawn == Val(q.payment) + q.won - Val(q.balance)
                  IN  withdrawn = 0 \/ withdrawn >= MinWithdraw
               /\ q.id \notin PlayerIds(players) =>
                    q.balance = q.payment /\ q.won = 0
      /\ \A i \in DOMAIN players, j \in DOMAIN players' :
           players[i].id = players'[j].id =>
             LET p == players[i]
                 q == players'[j]
                 win == (6984 * p.stake) \div 100
                 amount == inbound'.data.amount
             IN  IF /\ inbound'.type = "announce_win"
                    /\ inbound'.playerId = p.id
                    /\ inbound'.roomId \in RoomIds(rooms)
                 THEN /\ q.won = p.won + win
                      /\ q.balance = Some(Val(p.balance) + win)
                 ELSE IF /\ inbound'.type = "withdraw"
                         /\ inbound'.playerId = p.id
                         /\ \E k \in DOMAIN sent' :
                              sent'[k].type = "withdrawal_processed"
                      THEN /\ q.won = p.won
                           /\ IsDefined(amount)
                           /\ q.balance = Some(Val(p.balance) - Val(amount))
                      ELSE /\ q.won = p.won
                           /\ q.balance = p.balance ]_vars

====
